---- MODULE Spec2Model ----
(***************************************************************************)
(* State-machine model of go-turbo-cachesrv (src/main.go): a bearer-token  *)
(* protected artifact cache over a flat directory of files.                *)
(*                                                                         *)
(* The filesystem is modelled with inodes: a directory entry names an      *)
(* inode, an open handle keeps its inode alive after os.Remove, and        *)
(* os.Create truncates the inode a name already points to.  Every          *)
(* request runs in its own goroutine (a process of Procs); the steps of a  *)
(* handler interleave at its filesystem calls.                             *)
(***************************************************************************)
EXTENDS Integers, Sequences, FiniteSets, TLC

\* ---------------------------------------------------------------- bounds
MaxLen == 2       \* longest payload, in chunks written by io.Copy
MaxQuery == 2     \* longest list of hashes in a bulk query

\* ------------------------------------------------------------ the domain
ProcSeq == <<"p1", "p2">>
NameSeq == <<"h1", "h2">>

Procs == {ProcSeq[k] : k \in 1..Len(ProcSeq)}
Names == {NameSeq[k] : k \in 1..Len(NameSeq)}

\* "" is the hash of the request path "/v8/artifacts/" itself.
Hashes == Names \cup {""}

Idx(seq, x) == CHOOSE k \in 1..Len(seq) : seq[k] = x

\* The chunks of the bodies client k sends have the value k, so that the bytes
\* of a file tell which upload wrote them; a hole of a sparse file reads as 0.
Byte == 1..Len(ProcSeq)
Hole == 0

RECURSIVE SeqsUpTo(_, _)
SeqsUpTo(S, n) ==
    IF n = 0 THEN {<<>>}
    ELSE LET prev == SeqsUpTo(S, n - 1)
         IN  prev \cup {Append(s, x) : s \in {t \in prev : Len(t) = n - 1}, x \in S}

Payloads == SeqsUpTo(Byte, MaxLen)
HashLists == SeqsUpTo(Hashes, MaxQuery)

Range(s) == {s[i] : i \in 1..Len(s)}

\* ------------------------------------------------------- strings (headers)
BearerPrefix == <<"Bearer ">>
token == <<"s">>

HasPrefix(s, prefix) ==
    /\ Len(s) >= Len(prefix)
    /\ SubSeq(s, 1, Len(prefix)) = prefix

TrimPrefix(s, prefix) ==
    IF HasPrefix(s, prefix) THEN SubSeq(s, Len(prefix) + 1, Len(s)) ELSE s

AuthHeaders ==
    { <<>>,                          \* no Authorization header
      token,                         \* the secret without the scheme
      <<"bearer ">> \o token,        \* wrong case of the scheme
      BearerPrefix,                  \* empty token
      BearerPrefix \o <<"x">>,       \* wrong token
      BearerPrefix \o token \o <<"x">>,
      BearerPrefix \o token }

Routes == {"events", "status", "artifact", "query"}
Methods == {"GET", "PUT", "HEAD", "POST", "DELETE"}

\* ------------------------------------------------------------- filesystem
NumInodes == Cardinality(Names) + Cardinality(Procs)
Inodes == 1..NumInodes
NoIno == 0
RootIno == NumInodes + 1      \* the storage directory itself
DirSize == MaxLen + 1         \* st_size of the storage directory

VARIABLES
    dir,      \* dir[n]: inode of the file named n in basePath, or NoIno
    inode,    \* inode[i]: the bytes of inode i
    pc,       \* pc[p]: where the goroutine serving p's request stands
    req,      \* req[p]: the request
    w,        \* w[p]: the response written so far (loggingResponseWriter)
    fd,       \* fd[p]: inode of the open *os.File, or NoIno
    off,      \* off[p]: file offset of fd[p]; loop index of a bulk query
    log,      \* log[p]: lines the logger printed for the request
    fault,    \* fault[p]: the I/O error the request ran into, "" if none
    touched,  \* touched[p]: names a Store step changed while p was served
    cands,    \* cands[p]: the complete outcomes p's download may report
    lastPut,  \* lastPut[n]: payload of the last upload of n answered 202
    hist      \* hist[h]: "never" | "started" | "acked": the uploads of h so far

vars == <<dir, inode, pc, req, w, fd, off, log, fault, touched, cands, lastPut, hist>>
fsVars == <<dir, inode>>

\* --------------------------------------------------------------- requests
NoReq ==
    [route |-> "", method |-> "", auth |-> <<>>, hash |-> "", body |-> <<>>,
     hasCL |-> FALSE, wellFormed |-> FALSE, hashes |-> <<>>, events |-> 0]

ArtifactRequests(auths) ==
    { [NoReq EXCEPT !.route = "artifact", !.method = m, !.auth = a, !.hash = h]
        : m \in Methods \ {"PUT"}, a \in auths, h \in Hashes }
    \cup
    { [NoReq EXCEPT !.route = "artifact", !.method = "PUT", !.auth = a, !.hash = h,
                    !.body = b, !.hasCL = c]
        : a \in auths, h \in Hashes, b \in Payloads, c \in BOOLEAN }

QueryRequests(auths, methods, lists) ==
    { [NoReq EXCEPT !.route = "query", !.method = m, !.auth = a] : m \in methods, a \in auths }
    \cup
    { [NoReq EXCEPT !.route = "query", !.method = m, !.auth = a, !.wellFormed = TRUE,
                    !.hashes = hs]
        : m \in methods, a \in auths, hs \in lists }

EventsRequests(auths) ==
    { [NoReq EXCEPT !.route = "events", !.method = m, !.auth = a] : m \in Methods, a \in auths }
    \cup
    { [NoReq EXCEPT !.route = "events", !.method = m, !.auth = a, !.wellFormed = TRUE,
                    !.events = n]
        : m \in Methods, a \in auths, n \in 0..1 }

StatusRequests(auths) ==
    { [NoReq EXCEPT !.route = "status", !.method = m, !.auth = a] : m \in Methods, a \in auths }

\* -------------------------------------------------------------- responses
ArtifactNotFound == "Artifact not found"

NoInfo == [Size |-> 0, Error |-> ""]

\* encoding/json with `omitempty`: a zero Size and a nil Error are left out.
EncodeInfo(info) ==
    [fields |-> (IF info.Size # 0 THEN {"size"} ELSE {})
                  \cup (IF info.Error # "" THEN {"error"} ELSE {}),
     size |-> info.Size,
     message |-> info.Error]

NewWriter ==
    [status |-> 0, statusCode |-> 200, clen |-> -1, body |-> <<>>,
     response |-> [h \in {} |-> NoInfo], json |-> [h \in {} |-> EncodeInfo(NoInfo)],
     urls |-> <<>>]

WriteHeaderUnrecorded(lrw, code) ==
    [lrw EXCEPT !.status = IF lrw.status = 0 THEN code ELSE @]

\* loggingResponseWriter.WriteHeader: records the code, forwards it; the
\* wrapped writer keeps the first code it is given.
WriteHeader(lrw, code) ==
    [lrw EXCEPT !.statusCode = code,
                !.status = IF lrw.status = 0 THEN code ELSE @]

\* Write on the embedded http.ResponseWriter: an implicit 200 when no
\* header was written; it does not pass through lrw.WriteHeader.
Write(lrw) ==
    [lrw EXCEPT !.status = IF lrw.status = 0 THEN 200 ELSE @]

\* http.Error: sets the code, then writes the message.
Error(lrw, code) == Write(WriteHeader(lrw, code))

Line(kind, code) == [kind |-> kind, code |-> code]

\* What a handler hands back to handleAuth: the writer, the lines it logged and
\* the place it stands at ("done" when it has returned).
Ret(lrw, lines) == [pc |-> "done", w |-> lrw, lines |-> lines]
Goto(at, lrw) == [pc |-> at, w |-> lrw, lines |-> <<>>]

\* ------------------------------------------------------- history variables
Unknown == [known |-> FALSE, solo |-> FALSE, data |-> <<>>, over |-> "none"]

\* How the payload an upload is about to replace compares with its own.
Over(old, body) ==
    IF ~(old.known /\ old.solo) \/ old.data = body THEN "none"
    ELSE IF Len(old.data) > Len(body) THEN "longer"
    ELSE IF Len(old.data) < Len(body) THEN "shorter"
    ELSE "same"
NotFoundOutcome == [found |-> FALSE, data |-> <<>>]
Top == [top |-> TRUE, set |-> {}]

InStore(p, n) == pc[p] \in {"create", "copy"} /\ req[p].hash = n
InDownload(p, n) ==
    /\ pc[p] \in {"open", "stat", "stream"}
    /\ req[p].route = "artifact"
    /\ req[p].hash = n

\* touched[q] collects the names on which other goroutines' uploads took a step
\* since q's request arrived (for an upload: since its os.Create).
Touch(p, n) ==
    [q \in Procs |-> IF q # p /\ pc[q] # "idle" THEN touched[q] \cup {n} ELSE touched[q]]

\* A download in flight may from now on also report `o`.
Offer(p, n, o) ==
    [q \in Procs |->
        IF q # p /\ InDownload(q, n) /\ ~cands[q].top
        THEN IF Cardinality(cands[q].set \cup {o}) > 2 THEN Top
             ELSE [cands[q] EXCEPT !.set = @ \cup {o}]
        ELSE cands[q]]

\* The outcome a download that starts now may report, when n is settled.
Settled(n) ==
    IF n \notin Names \/ \E p \in Procs : InStore(p, n) THEN Top
    ELSE IF dir[n] = NoIno THEN [top |-> FALSE, set |-> {NotFoundOutcome}]
    ELSE IF lastPut[n].known /\ lastPut[n].solo
         THEN [top |-> FALSE, set |-> {[found |-> TRUE, data |-> lastPut[n].data]}]
    ELSE Top

\* ------------------------------------------------------ filesystem calls
\* filepath.Join(basePath, hash), resolved: "" names the directory itself.
Lookup(hash) == IF hash = "" THEN RootIno ELSE dir[hash]

\* info.Size() of an open file.
Size(i) == IF i = RootIno THEN DirSize ELSE Len(inode[i])

\* os.Stat(path) succeeded.
Exists(hash) == Lookup(hash) # NoIno

Referenced(d, f) == ({d[n] : n \in Names} \cup {f[p] : p \in Procs}) \ {NoIno, RootIno}

\* Inode numbers are names the program never sees: the inode of the file named
\* NameSeq[k] is numbered k, and an inode that lost its name (os.Remove while
\* handles are open) is numbered after the first goroutine holding it.
Slot(d, f, i) ==
    IF \E n \in Names : d[n] = i
    THEN Idx(NameSeq, CHOOSE n \in Names : d[n] = i)
    ELSE Len(NameSeq) + (CHOOSE k \in 1..Len(ProcSeq) :
                            /\ f[ProcSeq[k]] = i
                            /\ \A j \in 1..(k - 1) : f[ProcSeq[j]] # i)

\* The filesystem after a step that left names d, handles f and contents ino.
\* An inode no name and no handle refers to is gone.
SetFS(d, f, ino) ==
    /\ dir' = [n \in Names |-> IF d[n] = NoIno THEN NoIno ELSE Slot(d, f, d[n])]
    /\ fd' = [p \in Procs |-> IF f[p] \in {NoIno, RootIno} THEN f[p] ELSE Slot(d, f, f[p])]
    /\ inode' = [j \in Inodes |->
                   IF \E i \in Referenced(d, f) : Slot(d, f, i) = j
                   THEN ino[CHOOSE i \in Referenced(d, f) : Slot(d, f, i) = j]
                   ELSE <<>>]

\* The inode os.Create gives a new file: any inode not in use.
FreeIno == CHOOSE i \in Inodes : i \notin Referenced(dir, fd)

KeepData(data) == data

\* O_TRUNC of os.Create: the file is emptied.
Truncate(data) == <<>>

RemoveNothing(d, n) == d

RemoveAll(d, n) == [m \in DOMAIN d |-> NoIno]

\* os.Remove(path): the name is gone; open handles keep the inode.
Remove(d, n) == [d EXCEPT ![n] = NoIno]

\* write(2) of one chunk at a file offset; a gap past the end reads as zeros.
WriteAt(data, at, b) ==
    [k \in 1..(IF at + 1 > Len(data) THEN at + 1 ELSE Len(data)) |->
        IF k = at + 1 THEN b
        ELSE IF k <= Len(data) THEN data[k]
        ELSE Hole]

\* ------------------------------------------------------------- handlers
\* Handler for /v8/artifacts/events
recordEvents(r, lrw) ==
    IF r.method # "POST" THEN Ret(Error(lrw, 405), <<>>)
    ELSE IF ~r.wellFormed THEN Ret(Error(lrw, 400), <<>>)
    ELSE Ret(WriteHeader(lrw, 200), [i \in 1..r.events |-> Line("event", 0)])

\* Handler for /v8/artifacts/status
getStatus(r, lrw) ==
    IF r.method # "GET" THEN Ret(Error(lrw, 405), <<>>)
    ELSE Ret(Write(lrw), <<>>)

uploadArtifactNoCheck(r, lrw) == Goto("create", lrw)

\* uploadArtifact up to its call of storage.Store.
uploadArtifact(r, lrw) ==
    IF ~r.hasCL THEN Ret(Error(lrw, 400), <<>>)
    ELSE Goto("create", lrw)

handleArtifactAnyMethod(r, lrw) ==
    CASE r.method = "PUT" -> uploadArtifact(r, lrw)
      [] r.method = "HEAD" -> Goto("exists", lrw)
      [] OTHER -> Goto("open", lrw)

\* Handler for /v8/artifacts/{hash}, up to the first call of the storage.
handleArtifact(r, lrw) ==
    CASE r.method = "GET" -> Goto("open", lrw)
      [] r.method = "PUT" -> uploadArtifact(r, lrw)
      [] r.method = "HEAD" -> Goto("exists", lrw)
      [] OTHER -> Ret(Error(lrw, 405), <<>>)

queryArtifactsLenient(r, lrw) ==
    IF r.method # "POST" THEN Ret(Error(lrw, 405), <<>>)
    ELSE IF r.hashes = <<>> THEN Ret(Write(lrw), <<>>)
    ELSE Goto("open", lrw)

\* Handler for /v8/artifacts (POST - query), up to the first storage.Get.
queryArtifacts(r, lrw) ==
    IF r.method # "POST" THEN Ret(Error(lrw, 405), <<>>)
    ELSE IF ~r.wellFormed THEN Ret(Error(lrw, 400), <<>>)
    ELSE IF r.hashes = <<>> THEN Ret(Write(lrw), <<>>)
    ELSE Goto("open", lrw)

\* Route registration: the handler http.HandleFunc bound to the route.
next(r, lrw) ==
    CASE r.route = "events" -> recordEvents(r, lrw)
      [] r.route = "status" -> getStatus(r, lrw)
      [] r.route = "artifact" -> handleArtifact(r, lrw)
      [] r.route = "query" -> queryArtifacts(r, lrw)

authorizedByScheme(r) == HasPrefix(r.auth, BearerPrefix)

\* The check of the Authorization header in handleAuth.
authorized(r) ==
    /\ HasPrefix(r.auth, BearerPrefix)
    /\ TrimPrefix(r.auth, BearerPrefix) = token

handleAuthRunsHandler(r) ==
    LET h == next(r, NewWriter)
    IN  IF ~authorized(r)
        THEN [pc |-> "done", w |-> Error(NewWriter, 401),
              lines |-> <<Line("request", 0)>> \o h.lines \o <<Line("response", 401)>>]
        ELSE [pc |-> h.pc,
              w |-> IF h.pc = "done" THEN Write(h.w) ELSE h.w,
              lines |-> <<Line("request", 0)>> \o h.lines \o
                        (IF h.pc = "done" THEN <<Line("response", h.w.statusCode)>>
                         ELSE <<>>)]

\* Middleware to handle authentication.
handleAuth(r) ==
    IF ~authorized(r)
    THEN [pc |-> "done", w |-> Error(NewWriter, 401),
          lines |-> <<Line("request", 0), Line("response", 401)>>]
    ELSE LET h == next(r, NewWriter)
         IN  [pc |-> h.pc,
              w |-> IF h.pc = "done" THEN Write(h.w) ELSE h.w,
              lines |-> <<Line("request", 0)>> \o h.lines \o
                        (IF h.pc = "done" THEN <<Line("response", h.w.statusCode)>>
                         ELSE <<>>)]

\* ------------------------------------------------------------------- Init
Init ==
    /\ dir = [n \in Names |-> NoIno]
    /\ inode = [i \in Inodes |-> <<>>]
    /\ pc = [p \in Procs |-> "idle"]
    /\ req = [p \in Procs |-> NoReq]
    /\ w = [p \in Procs |-> NewWriter]
    /\ fd = [p \in Procs |-> NoIno]
    /\ off = [p \in Procs |-> 0]
    /\ log = [p \in Procs |-> <<>>]
    /\ fault = [p \in Procs |-> ""]
    /\ touched = [p \in Procs |-> {}]
    /\ cands = [p \in Procs |-> Top]
    /\ lastPut = [n \in Names |-> Unknown]
    /\ hist = [h \in Hashes |-> "never"]

\* ---------------------------------------------------------------- actions
\* A request arrives and runs through handleAuth and its handler up to the
\* handler's first call of the storage.
Request(p, r) ==
    /\ pc[p] = "idle"
    /\ LET h == handleAuth(r)
       IN  /\ pc' = [pc EXCEPT ![p] = h.pc]
           /\ w' = [w EXCEPT ![p] = h.w]
           /\ log' = [log EXCEPT ![p] = h.lines]
           /\ off' = [off EXCEPT ![p] = IF h.pc = "open" /\ r.route = "query" THEN 1 ELSE 0]
           /\ cands' = [cands EXCEPT ![p] =
                          IF h.pc = "open" /\ r.route = "artifact" THEN Settled(r.hash) ELSE Top]
    /\ req' = [req EXCEPT ![p] = r]
    /\ UNCHANGED <<dir, inode, fd, fault, touched, lastPut, hist>>

\* The response has gone out and the goroutine of the request ends.
Finish(p) ==
    /\ pc[p] = "done"
    /\ pc' = [pc EXCEPT ![p] = "idle"]
    /\ req' = [req EXCEPT ![p] = NoReq]
    /\ w' = [w EXCEPT ![p] = NewWriter]
    /\ off' = [off EXCEPT ![p] = 0]
    /\ log' = [log EXCEPT ![p] = <<>>]
    /\ fault' = [fault EXCEPT ![p] = ""]
    /\ touched' = [touched EXCEPT ![p] = {}]
    /\ cands' = [cands EXCEPT ![p] = Top]
    /\ UNCHANGED <<dir, inode, fd, lastPut, hist>>

ReturnUnlogged(p, lrw, lines) ==
    /\ pc' = [pc EXCEPT ![p] = "done"]
    /\ w' = [w EXCEPT ![p] = Write(lrw)]
    /\ log' = [log EXCEPT ![p] = log[p] \o lines]

\* The handler of p returns: handleAuth logs the response line and the server
\* sends the status (200 if the handler never set one).
Return(p, lrw, lines) ==
    /\ pc' = [pc EXCEPT ![p] = "done"]
    /\ w' = [w EXCEPT ![p] = Write(lrw)]
    /\ log' = [log EXCEPT ![p] = log[p] \o lines \o <<Line("response", lrw.statusCode)>>]

Started(n) == [hist EXCEPT ![n] = IF @ = "never" THEN "started" ELSE @]

\* -- FileSystemStorage.Store, called by uploadArtifact
\* os.Create(path): O_CREATE|O_TRUNC, so an existing file is truncated in place.
StoreCreate(p) ==
    /\ pc[p] = "create"
    /\ req[p].hash \in Names
    /\ LET n == req[p].hash
           i == IF dir[n] = NoIno THEN FreeIno ELSE dir[n]
       IN  /\ SetFS([dir EXCEPT ![n] = i], [fd EXCEPT ![p] = i],
                     [inode EXCEPT ![i] = Truncate(@)])
           /\ touched' = [Touch(p, n) EXCEPT ![p] = {}]
           /\ cands' = Offer(p, n, [found |-> TRUE, data |-> req[p].body])
           /\ lastPut' = [lastPut EXCEPT ![n] = [Unknown EXCEPT !.over = Over(lastPut[n], req[p].body)]]
           /\ hist' = Started(n)
    /\ pc' = [pc EXCEPT ![p] = "copy"]
    /\ off' = [off EXCEPT ![p] = 0]
    /\ UNCHANGED <<req, w, log, fault>>

\* os.Create fails (always on the directory, otherwise an I/O error): Store
\* returns the error and uploadArtifact answers 500.
CreateError(p) ==
    /\ pc[p] = "create"
    /\ Return(p, Error(w[p], 500), <<Line("error", 0)>>)
    /\ fault' = [fault EXCEPT ![p] = "create"]
    /\ hist' = Started(req[p].hash)
    /\ UNCHANGED <<dir, inode, req, fd, off, touched, cands, lastPut>>

\* io.Copy(file, data) moves one more chunk of the body into the file.
StoreCopy(p) ==
    /\ pc[p] = "copy"
    /\ off[p] < Len(req[p].body)
    /\ inode' = [inode EXCEPT ![fd[p]] = WriteAt(@, off[p], req[p].body[off[p] + 1])]
    /\ off' = [off EXCEPT ![p] = @ + 1]
    /\ touched' = Touch(p, req[p].hash)
    /\ lastPut' = [lastPut EXCEPT ![req[p].hash] = [Unknown EXCEPT !.over = lastPut[req[p].hash].over]]
    /\ UNCHANGED <<dir, pc, req, w, fd, log, fault, cands, hist>>

\* io.Copy fails (the body breaks off, or the write fails): os.Remove(path),
\* Store returns the error and uploadArtifact answers 500.
CopyError(p) ==
    /\ pc[p] = "copy"
    /\ LET n == req[p].hash
       IN  /\ SetFS(Remove(dir, n), [fd EXCEPT ![p] = NoIno], inode)
           /\ touched' = Touch(p, n)
           /\ cands' = Offer(p, n, NotFoundOutcome)
           /\ lastPut' = [lastPut EXCEPT ![n] = Unknown]
    /\ Return(p, Error(w[p], 500), <<Line("error", 0)>>)
    /\ fault' = [fault EXCEPT ![p] = "copy"]
    /\ UNCHANGED <<req, off, hist>>

\* io.Copy reaches the end of the body: Store returns nil and uploadArtifact
\* answers 202 with the URL of the artifact.
StoreReturn(p) ==
    /\ pc[p] = "copy"
    /\ off[p] = Len(req[p].body)
    /\ LET n == req[p].hash
       IN  /\ SetFS(dir, [fd EXCEPT ![p] = NoIno], inode)
           /\ lastPut' = [lastPut EXCEPT ![n] =
                            [known |-> TRUE, solo |-> n \notin touched[p], data |-> req[p].body,
                             over |-> IF n \notin touched[p] THEN lastPut[n].over ELSE "none"]]
           /\ hist' = [hist EXCEPT ![n] = "acked"]
           /\ touched' = Touch(p, n)
           /\ Return(p, Write([WriteHeader(w[p], 202) EXCEPT !.urls = <<n>>]), <<>>)
    /\ UNCHANGED <<req, off, fault, cands>>

\* -- FileSystemStorage.Get, called by downloadArtifact and queryArtifacts
hashAt(p) == IF req[p].route = "query" THEN req[p].hashes[off[p]] ELSE req[p].hash

\* queryArtifacts records the entry of the current hash and moves on; after
\* the last hash it encodes the map.
QueryEntry(p, info) ==
    LET old == w[p].response
        new == [k \in (DOMAIN old) \cup {hashAt(p)} |-> IF k = hashAt(p) THEN info ELSE old[k]]
        lrw == [w[p] EXCEPT !.response = new]
    IN  IF off[p] < Len(req[p].hashes)
        THEN /\ pc' = [pc EXCEPT ![p] = "open"]
             /\ off' = [off EXCEPT ![p] = @ + 1]
             /\ w' = [w EXCEPT ![p] = lrw]
             /\ log' = log
        ELSE /\ Return(p, Write([lrw EXCEPT !.json = [k \in DOMAIN new |-> EncodeInfo(new[k])]]), <<>>)
             /\ off' = off

GetFailedAbort(p) ==
    /\ Return(p, Error(w[p], 404), <<Line("error", 0)>>)
    /\ off' = off

\* Get returned an error to its caller.
GetFailed(p) ==
    IF req[p].route = "query"
    THEN QueryEntry(p, [Size |-> 0, Error |-> ArtifactNotFound])
    ELSE /\ Return(p, Error(w[p], 404), <<Line("error", 0)>>)
         /\ off' = off

\* os.Open(path)
GetOpen(p) ==
    /\ pc[p] = "open"
    /\ IF Lookup(hashAt(p)) = NoIno
       THEN GetFailed(p) /\ fd' = fd
       ELSE /\ fd' = [fd EXCEPT ![p] = Lookup(hashAt(p))]
            /\ pc' = [pc EXCEPT ![p] = "stat"]
            /\ UNCHANGED <<w, off, log>>
    /\ UNCHANGED <<dir, inode, req, fault, touched, cands, lastPut, hist>>

\* os.Open fails with an error other than "does not exist".
OpenError(p) ==
    /\ pc[p] = "open"
    /\ GetFailed(p)
    /\ fault' = [fault EXCEPT ![p] = "open"]
    /\ UNCHANGED <<dir, inode, req, fd, touched, cands, lastPut, hist>>

\* file.Stat(): Get returns the handle and the size.
GetStat(p) ==
    /\ pc[p] = "stat"
    /\ IF req[p].route = "query"
       THEN /\ QueryEntry(p, [Size |-> Size(fd[p]), Error |-> ""])
            /\ SetFS(dir, [fd EXCEPT ![p] = NoIno], inode)
       ELSE /\ w' = [w EXCEPT ![p].clen = Size(fd[p])]
            /\ pc' = [pc EXCEPT ![p] = "stream"]
            /\ UNCHANGED <<dir, fd, inode, off, log>>
    /\ UNCHANGED <<req, fault, touched, cands, lastPut, hist>>

StatErrorRemoving(p) ==
    /\ pc[p] = "stat"
    /\ GetFailed(p)
    /\ SetFS(IF hashAt(p) \in Names THEN Remove(dir, hashAt(p)) ELSE dir,
             [fd EXCEPT ![p] = NoIno], inode)
    /\ fault' = [fault EXCEPT ![p] = "stat"]
    /\ UNCHANGED <<req, touched, cands, lastPut, hist>>

\* file.Stat() fails: Get closes the file and returns the error.
StatError(p) ==
    /\ pc[p] = "stat"
    /\ GetFailed(p)
    /\ SetFS(dir, [fd EXCEPT ![p] = NoIno], inode)
    /\ fault' = [fault EXCEPT ![p] = "stat"]
    /\ UNCHANGED <<req, touched, cands, lastPut, hist>>

\* -- downloadArtifact after Get
\* io.Copy(w, reader) reads what the file holds past the offset and writes it.
DownloadRead(p) ==
    /\ pc[p] = "stream"
    /\ fd[p] # RootIno
    /\ Size(fd[p]) > off[p]
    /\ w' = [w EXCEPT ![p] =
               Write([@ EXCEPT !.body = @ \o SubSeq(inode[fd[p]], off[p] + 1, Size(fd[p]))])]
    /\ off' = [off EXCEPT ![p] = Size(fd[p])]
    /\ UNCHANGED <<dir, inode, pc, req, fd, log, fault, touched, cands, lastPut, hist>>

\* io.Copy returns: at the end of the file, or with the read error a
\* directory gives; the deferred reader.Close() runs.
DownloadEOF(p) ==
    /\ pc[p] = "stream"
    /\ fd[p] = RootIno \/ Size(fd[p]) <= off[p]
    /\ Return(p, w[p], IF fd[p] = RootIno THEN <<Line("error", 0)>> ELSE <<>>)
    /\ fault' = [fault EXCEPT ![p] = IF fd[p] = RootIno THEN "read" ELSE @]
    /\ SetFS(dir, [fd EXCEPT ![p] = NoIno], inode)
    /\ UNCHANGED <<req, off, touched, cands, lastPut, hist>>

\* -- checkArtifact
checkArtifact(p) ==
    /\ pc[p] = "exists"
    /\ IF Exists(req[p].hash)
       THEN Return(p, WriteHeader(w[p], 200), <<>>)
       ELSE Return(p, Error(w[p], 404), <<>>)
    /\ UNCHANGED <<dir, inode, req, fd, off, fault, touched, cands, lastPut, hist>>

\* os.Stat fails with an error other than "does not exist".
ExistsError(p) ==
    /\ pc[p] = "exists"
    /\ Return(p, Error(w[p], 500), <<Line("error", 0)>>)
    /\ fault' = [fault EXCEPT ![p] = "stat"]
    /\ UNCHANGED <<dir, inode, req, fd, off, touched, cands, lastPut, hist>>

\* ---------------------------------------------------------- specifications
Secret == BearerPrefix \o token

\* The client under observation uploads, downloads and probes one hash while a
\* second client uploads the same hash.
From(p, r) == Range(r.body) \subseteq {Idx(ProcSeq, p)}

ObservedRequests ==
    {r \in ArtifactRequests({Secret}) :
        r.hash = "h1" /\ r.method \in {"GET", "PUT", "HEAD"} /\ From("p1", r)}
UploadRequests ==
    {r \in ArtifactRequests({Secret}) :
        r.hash = "h1" /\ r.method = "PUT" /\ r.hasCL /\ From("p2", r)}

Step(p) ==
    \/ StoreCreate(p)
    \/ CreateError(p)
    \/ StoreCopy(p)
    \/ CopyError(p)
    \/ StoreReturn(p)
    \/ GetOpen(p)
    \/ OpenError(p)
    \/ GetStat(p)
    \/ StatError(p)
    \/ DownloadRead(p)
    \/ DownloadEOF(p)
    \/ checkArtifact(p)
    \/ ExistsError(p)
    \/ Finish(p)

Next ==
    \/ \E r \in ObservedRequests : Request("p1", r)
    \/ \E r \in UploadRequests : Request("p2", r)
    \/ \E p \in Procs : Step(p)

Spec == Init /\ [][Next]_vars

\* The client under observation looks hashes up (GET, HEAD, bulk query) while
\* the second client uploads.
LookupRequests ==
    {r \in ArtifactRequests({Secret}) : r.method \in {"GET", "HEAD"}}
    \cup QueryRequests({Secret}, {"POST"}, HashLists)

NextQuery ==
    \/ \E r \in LookupRequests : Request("p1", r)
    \/ \E r \in UploadRequests : Request("p2", r)
    \/ \E p \in Procs : Step(p)

SpecQuery == Init /\ [][NextQuery]_vars

\* The client under observation sends every kind of request with every
\* Authorization header that is not the secret, and with the secret the requests
\* that are answered without the storage; the second client uploads, downloads
\* and probes meanwhile, so that the store holds every content.
AllRequests ==
    {r \in ArtifactRequests(AuthHeaders \ {Secret}) : From("p1", r)}
    \cup QueryRequests(AuthHeaders \ {Secret}, Methods, {hs \in HashLists : Len(hs) <= 1})
    \cup QueryRequests({Secret}, Methods, {<<>>})
    \cup {r \in ArtifactRequests({Secret}) : r.method \notin {"GET", "PUT", "HEAD"}}
    \cup EventsRequests(AuthHeaders)
    \cup StatusRequests(AuthHeaders)

StorageRequests ==
    {r \in ArtifactRequests({Secret}) :
        r.hash = "h1" /\ r.method \in {"GET", "PUT", "HEAD"} /\ From("p2", r)}

NextHttp ==
    \/ \E r \in AllRequests : Request("p1", r)
    \/ \E r \in StorageRequests : Request("p2", r)
    \/ \E p \in Procs : Step(p)

SpecHttp == Init /\ [][NextHttp]_vars

\* The client under observation uploads, downloads, probes and queries while
\* the second client uploads another hash; it also asks for the status and
\* posts events.
PairRequests ==
    {r \in ArtifactRequests({Secret}) :
        r.hash = "h1" /\ r.method \in {"GET", "PUT", "HEAD"} /\ r.hasCL = (r.method = "PUT")
        /\ From("p1", r)}
    \cup {r \in QueryRequests({Secret}, {"POST"}, HashLists) :
            r.wellFormed /\ Len(r.hashes) = Cardinality(Names) /\ Range(r.hashes) = Names}
    \cup {r \in EventsRequests({Secret}) : r.method = "POST" /\ r.wellFormed}
    \cup {r \in StatusRequests({Secret}) : r.method = "GET"}
OtherUploads ==
    {r \in ArtifactRequests({Secret}) :
        r.hash = "h2" /\ r.method = "PUT" /\ r.hasCL /\ From("p2", r)}

NextPair ==
    \/ \E r \in PairRequests : Request("p1", r)
    \/ \E r \in OtherUploads : Request("p2", r)
    \/ \E p \in Procs : Step(p)

SpecPair == Init /\ [][NextPair]_vars

\* ------------------------------------------------------------ properties
Done(p) == pc[p] = "done"
Upload(p) == req[p].route = "artifact" /\ req[p].method = "PUT" /\ req[p].auth = Secret
Download(p) == req[p].route = "artifact" /\ req[p].method = "GET" /\ req[p].auth = Secret
Probe(p) == req[p].route = "artifact" /\ req[p].method = "HEAD" /\ req[p].auth = Secret

\* p's download of a stored name was answered, ran into no I/O error, and no
\* step of an upload of that name has happened since the download began.
QuietDownload(p) ==
    /\ Done(p) /\ Download(p)
    /\ req[p].hash \in Names
    /\ fault[p] = ""
    /\ req[p].hash \notin touched[p]

Returns(p, data) ==
    /\ w[p].status = 200
    /\ w[p].body = data
    /\ w[p].clen = Len(data)

\* C1: after a PUT of h with body p was answered 202 and no step of another
\* upload of h has happened since, a GET of h is answered 200 with body p and
\* Content-Length |p|.
C1_RoundTripAsStated ==
    \A p \in Procs :
        QuietDownload(p) /\ lastPut[req[p].hash].known
            => Returns(p, lastPut[req[p].hash].data)

\* The round trip of an upload that no other upload of h overlapped (none took
\* a step between its os.Create and its 202).
SoloRoundTrip ==
    \A p \in Procs :
        QuietDownload(p) /\ lastPut[req[p].hash].known /\ lastPut[req[p].hash].solo
            => Returns(p, lastPut[req[p].hash].data)

SoloWitness ==
    \E p \in Procs :
        /\ QuietDownload(p)
        /\ lastPut[req[p].hash].known /\ lastPut[req[p].hash].solo
        /\ Len(lastPut[req[p].hash].data) = MaxLen
        /\ Returns(p, lastPut[req[p].hash].data)

Outcome(lrw) ==
    IF lrw.status = 404 THEN NotFoundOutcome ELSE [found |-> TRUE, data |-> lrw.body]

\* C3: a download that runs while the name is uploaded reports the complete
\* payload stored before, or the complete payload of an upload that ran
\* meanwhile (or not found, when nothing was there), with its length.
C3_NoPartialDownload ==
    \A p \in Procs :
        (/\ Done(p) /\ Download(p)
         /\ req[p].hash \in Names
         /\ fault[p] = ""
         /\ ~cands[p].top)
            => /\ Outcome(w[p]) \in cands[p].set
               /\ w[p].status = 200 => w[p].clen = Len(w[p].body)

\* C4: the step in which Store gives up on a copy error leaves nothing
\* addressable under the hash, and the upload is answered 500.
C4_FailedStoreLeavesNothing ==
    [][\A p \in Procs :
          (pc[p] = "copy" /\ pc'[p] = "done" /\ fault'[p] = "copy")
              => (~Exists(req[p].hash)' /\ w'[p].status = 500)]_vars

C4_Witness ==
    \E p \in Procs :
        /\ Done(p) /\ Upload(p)
        /\ fault[p] = "copy"
        /\ 0 < off[p] /\ off[p] < Len(req[p].body)
        /\ ~Exists(req[p].hash)
        /\ w[p].status = 500

\* C5: whenever the probe of a name would answer true, no upload is part-way
\* through writing the file of that name.
C5_ExistsOnlyComplete ==
    \A n \in Names :
        Exists(n) =>
            \A p \in Procs :
                (pc[p] = "copy" /\ fd[p] = dir[n]) => off[p] = Len(req[p].body)

\* C6: after an upload replaced a different payload stored under the name, a
\* download that starts afterwards returns exactly the new payload.
C6_LastWriterWins ==
    \A p \in Procs :
        (/\ QuietDownload(p)
         /\ lastPut[req[p].hash].known /\ lastPut[req[p].hash].solo
         /\ lastPut[req[p].hash].over # "none")
            => Returns(p, lastPut[req[p].hash].data)

C6_Witness ==
    \E p \in Procs :
        /\ QuietDownload(p)
        /\ lastPut[req[p].hash].known /\ lastPut[req[p].hash].solo
        /\ lastPut[req[p].hash].over = "longer"
        /\ lastPut[req[p].hash].data # <<>>
        /\ Returns(p, lastPut[req[p].hash].data)

\* C7: once an upload of a name was answered 202, the artifact stays present.
C7_NeverDeleted ==
    \A n \in Names : hist[n] = "acked" => Exists(n)

\* What a step of another goroutine leaves alone.
Local(q) == <<pc[q], req[q], w[q], off[q], log[q], fault[q]>>

NoLengthUpload(r) ==
    r.route = "artifact" /\ r.method = "PUT" /\ r.auth = Secret /\ ~r.hasCL

\* C10: the step that takes in an authorized PUT without Content-Length
\* answers 400 and leaves the names and the bytes of the store as they were.
C10_NoLengthRejected ==
    [][\A p \in Procs :
          (/\ pc[p] = "idle"
           /\ NoLengthUpload(req'[p])
           /\ \A q \in Procs \ {p} : Local(q)' = Local(q))
              => (pc'[p] = "done" /\ w'[p].status = 400 /\ UNCHANGED <<dir, inode>>)]_vars

C10_Witness ==
    \E p \in Procs :
        /\ Done(p) /\ NoLengthUpload(req[p])
        /\ w[p].status = 400
        /\ req[p].body # <<>>
        /\ lastPut[req[p].hash].known
        /\ Exists(req[p].hash)
        /\ inode[dir[req[p].hash]] = lastPut[req[p].hash].data
        /\ lastPut[req[p].hash].data # req[p].body

\* The header is absent, lacks the scheme, or carries another token.
Unauthorized(auth) ==
    \/ auth = <<>>
    \/ Head(auth) # "Bearer "
    \/ Tail(auth) # token

\* C2: a request without the right bearer token is answered 401 and nothing
\* else, whatever its route, method and body and whatever the store holds.
C2_Unauthorized401 ==
    \A p \in Procs :
        (req[p].route \in Routes /\ Unauthorized(req[p].auth))
            => (Done(p) /\ w[p].status = 401)

C2_Witness ==
    \E p \in Procs :
        /\ Done(p)
        /\ req[p].route = "artifact" /\ req[p].method = "PUT" /\ req[p].hasCL
        /\ req[p].body # <<>>
        /\ req[p].auth = BearerPrefix \o <<"x">>
        /\ \E n \in Names : Exists(n)
        /\ w[p].status = 401

Query(p) ==
    req[p].route = "query" /\ req[p].method = "POST" /\ req[p].auth = Secret /\ req[p].wellFormed

ErrorEntry(e) == e.fields = {"error"} /\ e.message = ArtifactNotFound

\* C8: for a hash no upload was ever started for, GET and HEAD are answered 404
\* and a bulk query reports the entry {error: {message: "Artifact not found"}}.
C8_NotFoundAsStated ==
    \A p \in Procs :
        (Done(p) /\ fault[p] = "") =>
            /\ ((Download(p) \/ Probe(p)) /\ hist[req[p].hash] = "never") => w[p].status = 404
            /\ Query(p) => \A h \in Range(req[p].hashes) :
                              hist[h] = "never" => ErrorEntry(w[p].json[h])

\* C9: a well-formed bulk query is answered 200 with one entry per requested
\* hash; the entry of a hash is an error exactly when its lookup fails, whatever
\* the lookups of the hashes before it gave, and otherwise carries the size.
C9_BulkQueryComplete ==
    \A p \in Procs :
        (Done(p) /\ Query(p)) =>
            /\ w[p].status = 200
            /\ DOMAIN w[p].json = Range(req[p].hashes)
            /\ \A h \in DOMAIN w[p].json :
                  /\ "error" \in w[p].json[h].fields => ErrorEntry(w[p].json[h])
                  /\ (fault[p] = "" /\ h \notin touched[p]) =>
                        /\ "error" \in w[p].json[h].fields <=> ~Exists(h)
                        /\ Exists(h) => w[p].json[h].size = Size(Lookup(h))

C9_Witness ==
    \E p \in Procs :
        /\ Done(p) /\ Query(p)
        /\ req[p].hashes = <<"h2", "h1">>
        /\ fault[p] = "" /\ touched[p] = {}
        /\ w[p].status = 200
        /\ ErrorEntry(w[p].json["h2"])
        /\ w[p].json["h1"].fields = {"size"}
        /\ w[p].json["h1"].size = MaxLen

\* C11: a download is answered 404 exactly when no file is stored under the
\* hash, and 500 when os.Open or file.Stat fails for another reason.
C11_ErrorKindsDistinguished ==
    \A p \in Procs :
        (Done(p) /\ Download(p) /\ req[p].hash \in Names) =>
            /\ (fault[p] \in {"open", "stat"} /\ Exists(req[p].hash)) => w[p].status = 500
            /\ (fault[p] = "" /\ req[p].hash \notin touched[p]) =>
                  (w[p].status = 404 <=> ~Exists(req[p].hash))

\* Both clients' uploads of the same name were answered 202.
BothAccepted(n) ==
    \A p \in Procs : Done(p) /\ Upload(p) /\ req[p].hash = n /\ w[p].status = 202

\* C14: once two uploads of the same name have both been answered 202, the
\* file of that name exists and holds exactly the payload of one of them.
C14_OneOfTwoPayloads ==
    \A n \in Names :
        BothAccepted(n) =>
            /\ Exists(n)
            /\ \E p \in Procs : inode[dir[n]] = req[p].body

\* What is stored under a name: nothing, or the bytes of its file.
Stored(n) == IF dir[n] = NoIno THEN <<>> ELSE <<inode[dir[n]]>>

\* The request goroutine p is serving during a step, and whether p took the step.
Acting(p) == IF pc[p] = "idle" THEN req'[p] ELSE req[p]
Moved(p) == Local(p)' # Local(p)

\* C12: the step that takes in a request the gate rejects answers 401, logs the
\* request and the response and nothing of a handler (no cache event), and
\* leaves the names, the bytes and the open files of the store as they were.
C12_RejectedLeavesStore ==
    [][\A p \in Procs :
          (pc[p] = "idle" /\ req'[p].route \in Routes /\ Unauthorized(req'[p].auth))
              => /\ pc'[p] = "done" /\ w'[p].status = 401
                 /\ log'[p] = <<Line("request", 0), Line("response", 401)>>
                 /\ UNCHANGED <<dir, inode, fd>>]_vars

C12_Witness ==
    \E p \in Procs :
        /\ Done(p)
        /\ req[p].route = "events" /\ req[p].method = "POST"
        /\ req[p].wellFormed /\ req[p].events > 0
        /\ req[p].auth = token
        /\ w[p].status = 401
        /\ \A i \in 1..Len(log[p]) : log[p][i].kind # "event"
        /\ \E n \in Names : Stored(n) # <<>> /\ Stored(n) # <<<<>>>>

\* C13: when every name is uploaded by one client only, what is stored under a
\* name no upload is writing is what that client's own uploads leave: the
\* payload of its last upload answered 202, or nothing after a failed copy
\* or before any upload, whatever the uploads of another name did meanwhile.
C13_DifferentHashesIndependent ==
    \A n \in Names :
        (\A p \in Procs : ~InStore(p, n)) =>
            IF lastPut[n].known THEN Stored(n) = <<lastPut[n].data>> ELSE Stored(n) = <<>>

C13_Witness ==
    /\ Done("p1") /\ Upload("p1") /\ req["p1"].hash = "h1"
    /\ w["p1"].status = 202 /\ Len(req["p1"].body) = MaxLen
    /\ "h2" \in touched["p1"]
    /\ Done("p2") /\ Upload("p2") /\ req["p2"].hash = "h2"
    /\ fault["p2"] = "copy" /\ off["p2"] > 0
    /\ "h1" \in touched["p2"]
    /\ Stored("h1") = <<req["p1"].body>>
    /\ Stored("h2") = <<>>

Undecodable(r) ==
    /\ r.auth = Secret /\ r.method = "POST"
    /\ r.route \in {"events", "query"}
    /\ ~r.wellFormed

\* C16: the step that takes in an authorized POST of events or of a bulk query
\* whose body does not decode answers 400 and leaves the store as it was.
C16_MalformedRejected ==
    [][\A p \in Procs :
          (pc[p] = "idle" /\ Undecodable(req'[p]))
              => /\ pc'[p] = "done" /\ w'[p].status = 400
                 /\ UNCHANGED <<dir, inode, fd>>]_vars

C16_Witness ==
    \E p \in Procs :
        /\ Done(p) /\ Undecodable(req[p]) /\ req[p].route = "query"
        /\ w[p].status = 400
        /\ \E n \in Names : Stored(n) # <<>>

WrongMethod(r) ==
    /\ r.auth = Secret
    /\ \/ r.route = "artifact" /\ r.method \notin {"GET", "PUT", "HEAD"}
       \/ r.route \in {"events", "query"} /\ r.method # "POST"
       \/ r.route = "status" /\ r.method # "GET"

\* C17: the step that takes in an authorized request with a method its route
\* does not serve answers 405 and calls nothing of the storage.
C17_MethodNotAllowed ==
    [][\A p \in Procs :
          (pc[p] = "idle" /\ WrongMethod(req'[p]))
              => /\ pc'[p] = "done" /\ w'[p].status = 405
                 /\ UNCHANGED <<dir, inode, fd>>]_vars

C17_Witness ==
    \E p \in Procs :
        /\ Done(p) /\ WrongMethod(req[p])
        /\ req[p].route = "artifact" /\ req[p].method = "DELETE" /\ req[p].hash = "h1"
        /\ Exists("h1")
        /\ w[p].status = 405

\* The handler of p's request wrote a body and set no status.
BodyOnly(p) ==
    \/ req[p].route = "status" /\ req[p].method = "GET"
    \/ Query(p)
    \/ Download(p) /\ w[p].body # <<>>

\* C18: for an authorized request that was answered, the code of the response
\* line is the status sent, which is 200 when the handler only wrote a body.
C18_LoggedStatusIsSent ==
    \A p \in Procs :
        (Done(p) /\ req[p].route \in Routes /\ req[p].auth = Secret) =>
            /\ w[p].statusCode = w[p].status
            /\ \E i \in 1..Len(log[p]) : log[p][i] = Line("response", w[p].status)
            /\ \A i \in 1..Len(log[p]) :
                  log[p][i].kind = "response" => log[p][i].code = w[p].status
            /\ BodyOnly(p) => w[p].status = 200

C18_Witness ==
    \E p, q \in Procs :
        /\ Done(p) /\ Download(p) /\ Len(w[p].body) = MaxLen
        /\ log[p] = <<Line("request", 0), Line("response", 200)>>
        /\ Done(q) /\ req[q].route = "events" /\ req[q].auth = Secret
        /\ log[q] = <<Line("request", 0), Line("response", 400)>>

\* C19: in the answer to a bulk query, the entry of a name no upload was
\* writing carries the size of the stored file and no error when a file is
\* stored, whatever its length, and the error and no size when none is.
C19_SizeOrError ==
    \A p \in Procs :
        (Done(p) /\ Query(p) /\ fault[p] = "") =>
            \A h \in Range(req[p].hashes) \cap Names :
                (h \notin touched[p] /\ \A q \in Procs : ~InStore(q, h)) =>
                    IF Exists(h)
                    THEN /\ w[p].json[h].fields = {"size"}
                         /\ w[p].json[h].size = Len(inode[dir[h]])
                    ELSE w[p].json[h].fields = {"error"}

IsPut(r) == r.route = "artifact" /\ r.method = "PUT"

\* C20: a step of a request leaves what is stored under a name as it was,
\* unless the request is a PUT of that name.
C20_OnlyPutChangesStore ==
    [][\A p \in Procs, m \in Names :
          (Moved(p) /\ ~(IsPut(Acting(p)) /\ Acting(p).hash = m))
              => Stored(m)' = Stored(m)]_vars

C20_Witness ==
    /\ Done("p1") /\ Query("p1")
    /\ fault["p1"] = "stat"
    /\ pc["p2"] = "copy" /\ off["p2"] > 0
    /\ Exists("h1") /\ Len(inode[dir["h1"]]) = MaxLen
    /\ Stored("h2") # <<>>

====
